---- MODULE Spec2Model ----
(***************************************************************************)
(* A model of the resilient card-knowledge store of the Clash Royale bot:  *)
(* RedisCardManager (the store adapter and the JSON snapshot),             *)
(* FallbackManager (the AVAILABLE/FALLBACK controller),                    *)
(* DataBackupManager (export and import of the store, the backup files),   *)
(* FeatureManager (the feature flags) and PerformanceMonitor.              *)
(*                                                                         *)
(* Python values are modelled with their type: the number 3 is             *)
(* [t |-> "int", v |-> "3"] and the string "3" is [t |-> "str", v |-> "3"],*)
(* so that what Redis does to a value (it stores text) is visible.         *)
(* A dict is a function whose domain is the set of its keys.               *)
(***************************************************************************)
EXTENDS Integers, Sequences, FiniteSets, TLC

VARIABLES
    enable_redis,        \* config.ENABLE_REDIS
    cards_file,          \* what cards.json holds on disk
    json_cards,          \* RedisCardManager.json_cards (the snapshot)
    redis_available,     \* RedisCardManager.redis_available
    fallback_count,      \* RedisCardManager.fallback_count
    last_fallback_time,  \* RedisCardManager.last_fallback_time (0: unset)
    redis_hash,          \* remote store: card name -> hash "card:<name>"
    redis_zset,          \* remote store: <<name, kind>> -> sorted set
    store_mode,          \* environment: how the remote store behaves
    now,                 \* environment: time.time()
    backup_file,         \* the file backup_to_json wrote last
    exported_from,       \* history: the store contents backup_file was taken from
    rt_phase,            \* history: progress of an export / empty / import round
    backup_dir,          \* the cards_backup_*.json files of the backup directory
    backup_marker,       \* the time in last_backup.txt (0: no such file)
    auto_calls,          \* history: the last auto_backup call, if any
    callers,             \* the concurrent callers of auto_backup: where each
                         \* is in it and the values it holds
    executing,           \* the execute_fallback in progress: its reason and
                         \* the side effects it has performed, in order
    features,            \* FeatureManager.features
    max_samples,         \* PerformanceMonitor.max_samples
    decision_times,      \* PerformanceMonitor.decision_times
    redis_operation_times, \* PerformanceMonitor.redis_operation_times
    fallback_events,     \* PerformanceMonitor.fallback_events (their timestamps)
    metrics,             \* PerformanceMonitor.metrics
    tracked,             \* history: every sample tracked, by operation
                         \* class, and the decisions tracked since a reset
    lastOp               \* history: the last call made and what it returned

vars == <<enable_redis, cards_file, json_cards, redis_available, fallback_count,
          last_fallback_time, redis_hash, redis_zset, store_mode, now,
          backup_file, exported_from, rt_phase, backup_dir, backup_marker,
          auto_calls, callers, features, max_samples, decision_times,
          redis_operation_times, fallback_events, metrics, tracked, executing,
          lastOp>>

cacheVars == <<redis_available, fallback_count, last_fallback_time>>
storeVars == <<redis_hash, redis_zset>>
backupVars == <<backup_file, exported_from, rt_phase>>
envVars == <<enable_redis, cards_file, store_mode, now>>
dirVars == <<backup_dir, backup_marker, auto_calls, callers>>
gateVars == <<features>>
monitorVars == <<max_samples, decision_times, redis_operation_times,
                 fallback_events, metrics, tracked>>
sideVars == <<dirVars, gateVars, monitorVars, executing>>

-----------------------------------------------------------------------------
(* Bounds of the model *)

MaxFallbacks == 2
MaxTime == 2
MaxLearned == 1      \* how far below 1.0, in tenths, learning may take a score
MaxSamples == 10     \* decision times tracked
MaxEvents == 6       \* fallback events recorded
MaxTracked == 4      \* samples tracked per class into a small buffer

(* Program constants *)

MAX_REDIS_LATENCY_MS == 50
GeneralFallbackMs == 50
TimeoutTriggerMs == 100
HighLatencyTriggerMs == 50
ImmediateTrigger == 0
DefaultScore == 10          \* the score 1.0 of store_card, in tenths
NeutralScore == 5           \* the score 0.5 assumed for an unknown counter
LearningRate == 1           \* learning_rate 0.1, in tenths
HighestScore == 10          \* min(1.0, ...)
LowestScore == 1            \* max(0.1, ...)
default_max_samples == 1000 \* PerformanceMonitor(max_samples=1000)
decision_time_warning == 200
decision_time_critical == 500
RecentSamples == 10         \* list(self.decision_times)[-10:]
FallbackWindowSeconds == 60
FrequentFallbacks == 5

-----------------------------------------------------------------------------
(* Values, records and the data of the model *)

Num(s) == [t |-> "int", v |-> s]
Txt(s) == [t |-> "str", v |-> s]

EmptyMap == [k \in {} |-> ""]

Names == {"Knight", "Archers"}
Kinds == {"counters", "synergies", "countered_by"}

\* A card as cards.json holds it: scalar fields and up to three lists.
Card(props, lists) == [props |-> props, lists |-> lists]
EmptyRecord == Card(EmptyMap, EmptyMap)

KnightCard ==
    Card([elixir_cost |-> Num("3"), type |-> Txt("troop")],
         [counters |-> <<"Archers">>, countered_by |-> <<"Valkyrie">>])

ArchersCard ==
    Card([elixir_cost |-> Num("3"), type |-> Txt("troop")], EmptyMap)

\* The records a caller may put under a name.
PutInputs(name) ==
    IF name = "Knight" THEN {KnightCard} ELSE {ArchersCard}

\* cards.json on disk: missing, not JSON, or a JSON object of cards.
SnapshotObject == [n \in {"Knight"} |-> KnightCard]
FileKinds == {"absent", "garbage", "object"}

-----------------------------------------------------------------------------
(* The remote store as seen by one call *)

Latencies == {50, 51, 150}
Outcomes ==
    {[lat |-> l, exc |-> FALSE] : l \in Latencies}
        \cup {[lat |-> 150, exc |-> TRUE]}

\* A call that returned, and within the latency budget.
InTime(o) == ~o.exc /\ ~(o.lat > MAX_REDIS_LATENCY_MS)

\* "healthy": reachable, and every call answers in time.
\* "degraded": a call may be slow, or raise.
StoreModes == {"healthy", "degraded"}
OutcomesIn(mode) ==
    IF mode = "healthy" THEN {o \in Outcomes : InTime(o)} ELSE Outcomes

NoOutcome == [lat |-> 0, exc |-> FALSE]

\* A backup file: whether it exists, and the JSON object it holds.
File(data) == [exists |-> TRUE, data |-> data]
NoFile == [exists |-> FALSE, data |-> EmptyMap]

\* last_backup.txt does not exist.
NoMarker == 0

-----------------------------------------------------------------------------
(* RedisCardManager *)

load_json_fallback_lenient(file) ==
    IF file = "absent" THEN EmptyMap ELSE SnapshotObject

\* _load_json_fallback: json.load of cards.json, and {} when the file is
\* missing or json.load raises. A file that parses holds an object of cards.
load_json_fallback(file) ==
    IF file = "object" THEN SnapshotObject ELSE EmptyMap

\* self.json_cards.get(card_name, {})
JsonGet(cards, name) ==
    IF name \in DOMAIN cards THEN cards[name] ELSE EmptyRecord

\* What redis-py writes for a value: its text.
redis_encode(val) == Txt(val.v)

\* static_props of store_card, as the hash receives them.
static_props(card) == [f \in DOMAIN card.props |-> redis_encode(card.props[f])]

\* card_data.get(kind, [])
ListOf(card, kind) ==
    IF kind \in DOMAIN card.lists THEN card.lists[kind] ELSE <<>>

ZaddWrites(name, kind, peers) ==
    [i \in 1..Len(peers) |->
        [cmd |-> "zadd", name |-> name, kind |-> kind, peer |-> peers[i]]]

\* The remote writes of store_card, in the order the code issues them.
Writes(name, card) ==
    <<[cmd |-> "hset", name |-> name, mapping |-> static_props(card)]>>
        \o ZaddWrites(name, "counters", ListOf(card, "counters"))
        \o ZaddWrites(name, "synergies", ListOf(card, "synergies"))
        \o ZaddWrites(name, "countered_by", ListOf(card, "countered_by"))

Store(h, z) == [hash |-> h, zset |-> z]
EmptyStore == Store([n \in Names |-> EmptyMap],
                    [k \in Names \X Kinds |-> EmptyMap])

\* One write applied by the Redis server.
ApplyWrite(s, w) ==
    IF w.cmd = "hset"
    THEN Store([s.hash EXCEPT ![w.name] = w.mapping @@ @], s.zset)
    ELSE Store(s.hash,
               [s.zset EXCEPT ![<<w.name, w.kind>>] =
                    (w.peer :> DefaultScore) @@ @])

RECURSIVE ApplyWrites(_, _, _)
ApplyWrites(s, ws, n) ==
    IF n = 0 THEN s ELSE ApplyWrite(ApplyWrites(s, ws, n - 1), ws[n])

trigger_fallback_stays_available(count, t) ==
    [available |-> redis_available, count |-> count + 1, time |-> t]

\* _trigger_fallback: the cache fields after it.
trigger_fallback(count, t) ==
    [available |-> FALSE, count |-> count + 1, time |-> t]

operation_succeeds_below_limit(o) ==
    ~o.exc /\ ~(o.lat >= MAX_REDIS_LATENCY_MS)

\* _redis_operation_with_fallback on a call with outcome o, made while
\* redis_available: does it return the result (TRUE) or trip (FALSE).
operation_succeeds(o) == ~o.exc /\ ~(o.lat > MAX_REDIS_LATENCY_MS)

initialize_redis_no_latency_check(o, count, time) ==
    IF o.exc
    THEN [available |-> FALSE, count |-> count + 1, time |-> time]
    ELSE [available |-> TRUE, count |-> count, time |-> time]

initialize_redis_strict(o, count, time) ==
    IF o.exc
    THEN [available |-> FALSE, count |-> count + 1, time |-> time]
    ELSE IF o.lat >= MAX_REDIS_LATENCY_MS
         THEN [available |-> FALSE, count |-> count, time |-> time]
         ELSE [available |-> TRUE, count |-> count, time |-> time]

\* _initialize_redis with ping outcome o: the cache fields after it.
initialize_redis(o, count, time) ==
    IF o.exc
    THEN [available |-> FALSE, count |-> count + 1, time |-> time]
    ELSE IF o.lat > MAX_REDIS_LATENCY_MS
         THEN [available |-> FALSE, count |-> count, time |-> time]
         ELSE [available |-> TRUE, count |-> count, time |-> time]

SetCache(c) ==
    /\ redis_available' = c.available
    /\ fallback_count' = c.count
    /\ last_fallback_time' = c.time

\* The record of a call: its name and argument, whether redis_available held
\* when it was made, the outcome of the remote call it made (NoOutcome when it
\* made none), what it returned, and for a get the length (up to 2) of the
\* run of consecutive gets it ends that found the store needing more than
\* TimeoutTriggerMs, a run that started available with no fallback counted.
Op(op, arg, was, o, res, ok, streak) ==
    [op |-> op, arg |-> arg, was_available |-> was, lat |-> o.lat,
     exc |-> o.exc, res |-> res, ok |-> ok, streak |-> streak]

SlowStreak(o) ==
    IF ~(o.lat > TimeoutTriggerMs) THEN 0
    ELSE IF lastOp.op = "get" /\ lastOp.streak = 1 THEN 2
    ELSE IF redis_available /\ fallback_count = 0 THEN 1
    ELSE 0

init_connects_always(enabled, o) == initialize_redis(o, 0, 0)

\* RedisCardManager.__init__ with ping outcome o: the cache fields after it.
\* They start as False, 0 and 0, and _initialize_redis runs only when
\* config.ENABLE_REDIS.
init_cache(enabled, o) ==
    IF enabled
    THEN initialize_redis(o, 0, 0)
    ELSE [available |-> FALSE, count |-> 0, time |-> 0]

\* RedisCardManager.__init__: load the snapshot, then connect if the store is
\* enabled. The backup manager finds no file yet.
ManagerInit ==
    /\ enable_redis \in BOOLEAN
    /\ cards_file \in FileKinds
    /\ store_mode \in StoreModes
    /\ now = 1
    /\ json_cards = load_json_fallback(cards_file)
    /\ redis_hash = EmptyStore.hash
    /\ redis_zset = EmptyStore.zset
    /\ backup_file = NoFile
    /\ exported_from = EmptyStore
    /\ rt_phase = "none"
    /\ backup_dir = {}
    /\ backup_marker = NoMarker
    /\ auto_calls = <<>>
    /\ callers = [c \in {1, 2} |->
                     [pc |-> "idle", interval |-> 0, last_backup_time |-> 0,
                      current_time |-> 0, exported_at |-> 0]]
    /\ executing = [reason |-> "", done |-> <<>>]
    /\ \E o \in OutcomesIn(store_mode) :
         LET c == init_cache(enable_redis, o)
         IN /\ redis_available = c.available
            /\ fallback_count = c.count
            /\ last_fallback_time = c.time
            /\ lastOp = Op("init", "", FALSE,
                           IF enable_redis THEN o ELSE NoOutcome,
                           EmptyRecord, c.available, 0)

\* Python's None, and "if result:" for None and for a dict.
None == [t |-> "NoneType", v |-> "None"]

truthy_unless_none(result) == result # None

truthy(result) == result # None /\ result # EmptyMap

redis_operation_returns_late_result(o, result) ==
    IF ~o.exc THEN result ELSE None

\* What _redis_operation_with_fallback returns to its caller for a call made
\* while redis_available, with outcome o, that would yield result.
redis_operation_with_fallback(o, result) ==
    IF operation_succeeds(o) THEN result ELSE None

\* What get_card_data returns when the wrapped hgetall returned result.
get_card_data_returns(result, cards, name) ==
    IF truthy(result) THEN Card(result, EmptyMap) ELSE JsonGet(cards, name)

remote_call_always(available, o) == o

\* The remote call a wrapped operation makes when the store would answer
\* with outcome o: none when not redis_available, the wrapper returning None
\* at once, and store_card returning before it builds a key.
remote_call(available, o) == IF available THEN o ELSE NoOutcome

\* get_card_data(card_name), the remote store answering with outcome o if asked.
GetRecord(name, o) ==
    /\ redis_available => (operation_succeeds(o) \/ fallback_count < MaxFallbacks)
    /\ IF redis_available
       THEN LET result == redis_operation_with_fallback(o, redis_hash[name])
            IN /\ IF operation_succeeds(o)
                  THEN UNCHANGED cacheVars
                  ELSE SetCache(trigger_fallback(fallback_count, now))
               /\ lastOp' = Op("get", name, TRUE, remote_call(TRUE, o),
                               get_card_data_returns(result, json_cards, name),
                               TRUE, SlowStreak(o))
       ELSE /\ UNCHANGED cacheVars
            /\ lastOp' = Op("get", name, FALSE, remote_call(FALSE, o),
                            JsonGet(json_cards, name), TRUE, SlowStreak(o))
    /\ UNCHANGED <<json_cards, storeVars, backupVars, envVars, sideVars>>

\* store_card(card_name, card_data): the first k remote writes succeed; when
\* k is short of all of them, write k+1 has the failing outcome o, trips, and
\* the remaining writes are skipped. A slow write was applied by the server,
\* a raising one was not.
PutEffects(ws, k, o) ==
    LET applied == IF k < Len(ws) /\ ~o.exc THEN k + 1 ELSE k
    IN ApplyWrites(Store(redis_hash, redis_zset), ws, applied)

PhaseAfterWrite(s) ==
    IF rt_phase = "none" \/ s = Store(redis_hash, redis_zset)
    THEN rt_phase ELSE "exported"

store_card_always_true(available) == TRUE

\* What store_card returns: False at once when not redis_available, True
\* after the wrapped writes, whether or not one of them tripped.
store_card_returns(available) == available

Put(name, card, k, o) ==
    LET ws == Writes(name, card) IN
    /\ k \in 0..Len(ws)
    /\ IF ~redis_available
       THEN /\ k = 0 /\ o = NoOutcome
            /\ UNCHANGED <<cacheVars, storeVars, rt_phase>>
            /\ lastOp' = Op("put", name, FALSE, o, EmptyRecord,
                            store_card_returns(redis_available), 0)
       ELSE /\ o \in OutcomesIn(store_mode)
            /\ (k = Len(ws)) = operation_succeeds(o)
            /\ k < Len(ws) => fallback_count < MaxFallbacks
            /\ LET s == PutEffects(ws, k, o) IN
                 /\ redis_hash' = s.hash
                 /\ redis_zset' = s.zset
                 /\ rt_phase' = PhaseAfterWrite(s)
            /\ IF k < Len(ws)
               THEN SetCache(trigger_fallback(fallback_count, now))
               ELSE UNCHANGED cacheVars
            /\ lastOp' = Op("put", name, TRUE, o, EmptyRecord,
                            store_card_returns(redis_available), 0)
    /\ UNCHANGED <<json_cards, backup_file, exported_from, envVars, sideVars>>

-----------------------------------------------------------------------------
(* FallbackManager *)

Reasons == {"connection_lost", "timeout", "high_latency", "memory_full",
            "corruption"}

\* self.fallback_triggers
fallback_triggers ==
    [r \in Reasons |->
        CASE r = "timeout" -> TimeoutTriggerMs
          [] r = "high_latency" -> HighLatencyTriggerMs
          [] OTHER -> ImmediateTrigger]

\* An error_type of None is "none"; "unknown" is a tag the table lacks.
ErrorTypes == Reasons \cup {"unknown", "none"}
Durations == {0, 50, 51, 101}

check_without_immediate(operation_time_ms, error_type) ==
    \/ /\ error_type \in Reasons
       /\ operation_time_ms > fallback_triggers[error_type]
    \/ operation_time_ms > GeneralFallbackMs

check_any_known_reason(operation_time_ms, error_type) ==
    \/ error_type \in Reasons
    \/ operation_time_ms > GeneralFallbackMs

check_without_general_floor(operation_time_ms, error_type) ==
    /\ error_type \in Reasons
    /\ \/ fallback_triggers[error_type] = 0
       \/ operation_time_ms > fallback_triggers[error_type]

\* check_fallback_conditions(operation_time_ms, error_type)
check_fallback_conditions(operation_time_ms, error_type) ==
    \/ /\ error_type \in Reasons
       /\ \/ fallback_triggers[error_type] = 0
          \/ operation_time_ms > fallback_triggers[error_type]
    \/ operation_time_ms > GeneralFallbackMs

execute_fallback_sets_one(count, t) ==
    [available |-> FALSE, count |-> 1, time |-> t]

\* execute_fallback(reason): the cache fields after it.
execute_fallback(count, t) ==
    [available |-> FALSE, count |-> count + 1, time |-> t]

\* Step 2 of execute_fallback: reload the snapshot when it is empty.
ensure_json_fallback(cards, file) ==
    IF cards = EmptyMap THEN load_json_fallback(file) ELSE cards

\* trip(reason, d): execute_fallback when check_fallback_conditions says so.
Trip(reason, d) ==
    /\ check_fallback_conditions(d, reason) => fallback_count < MaxFallbacks
    /\ IF check_fallback_conditions(d, reason)
       THEN /\ SetCache(execute_fallback(fallback_count, now))
            /\ json_cards' = ensure_json_fallback(json_cards, cards_file)
       ELSE UNCHANGED <<cacheVars, json_cards>>
    /\ lastOp' = Op("trip", reason, redis_available, [lat |-> d, exc |-> FALSE],
                    EmptyRecord, check_fallback_conditions(d, reason), 0)
    /\ UNCHANGED <<storeVars, backupVars, envVars, sideVars>>

\* execute_fallback(reason) statement by statement, as a caller on another
\* thread sees it. executing.done lists the side effects performed so far.
NotExecuting == [reason |-> "", done |-> <<>>]

\* Line 35: self.redis_manager.redis_available = False
DisableStore(reason, d) ==
    /\ executing = NotExecuting
    /\ check_fallback_conditions(d, reason)
    /\ fallback_count < MaxFallbacks
    /\ redis_available' = execute_fallback(fallback_count, now).available
    /\ executing' = [reason |-> reason, done |-> <<"availability">>]
    /\ lastOp' = Op("execute_fallback", reason, redis_available,
                    [lat |-> d, exc |-> FALSE], EmptyRecord, FALSE, 0)
    /\ UNCHANGED <<json_cards, fallback_count, last_fallback_time, storeVars,
                   backupVars, envVars, dirVars, gateVars, monitorVars>>

\* Lines 38 and 39: reload the snapshot when json_cards is empty.
EnsureSnapshot ==
    /\ executing.done = <<"availability">>
    /\ json_cards' = ensure_json_fallback(json_cards, cards_file)
    /\ executing' = [executing EXCEPT !.done = Append(@, "snapshot")]
    /\ UNCHANGED <<cacheVars, storeVars, backupVars, envVars, dirVars,
                   gateVars, monitorVars, lastOp>>

\* Line 42: self.redis_manager.fallback_count += 1
CountFallback ==
    /\ executing.done = <<"availability", "snapshot">>
    /\ fallback_count' = execute_fallback(fallback_count, now).count
    /\ executing' = [executing EXCEPT !.done = Append(@, "count")]
    /\ UNCHANGED <<json_cards, redis_available, last_fallback_time, storeVars,
                   backupVars, envVars, dirVars, gateVars, monitorVars,
                   lastOp>>

\* Line 43: self.redis_manager.last_fallback_time = time.time(), and the
\* return.
StampFallback ==
    /\ executing.done = <<"availability", "snapshot", "count">>
    /\ last_fallback_time' = execute_fallback(fallback_count, now).time
    /\ executing' = NotExecuting
    /\ lastOp' = [lastOp EXCEPT !.ok = TRUE]
    /\ UNCHANGED <<json_cards, redis_available, fallback_count, storeVars,
                   backupVars, envVars, dirVars, gateVars, monitorVars>>

\* attempt_recovery()
AttemptRecovery(o) ==
    /\ IF ~enable_redis
       THEN /\ o = NoOutcome
            /\ UNCHANGED cacheVars
            /\ lastOp' = Op("recover", "", redis_available, o, EmptyRecord,
                            FALSE, 0)
       ELSE /\ o \in OutcomesIn(store_mode)
            /\ o.exc => fallback_count < MaxFallbacks
            /\ LET c == initialize_redis(o, fallback_count, last_fallback_time)
               IN /\ SetCache(c)
                  /\ lastOp' = Op("recover", "", redis_available, o,
                                  EmptyRecord, c.available, 0)
    /\ UNCHANGED <<json_cards, storeVars, backupVars, envVars, sideVars>>

-----------------------------------------------------------------------------
(* CardLearningSystem *)

Min(a, b) == IF a < b THEN a ELSE b
Max(a, b) == IF a > b THEN a ELSE b

\* new_score of update_counter_effectiveness
new_score(z, enemy_card, success) ==
    LET current_score == IF enemy_card \in DOMAIN z THEN z[enemy_card]
                         ELSE NeutralScore
    IN IF success THEN Min(HighestScore, current_score + LearningRate)
       ELSE Max(LowestScore, current_score - LearningRate)

\* update_counter_effectiveness(my_card, enemy_card, success, damage_dealt):
\* it reads and writes the sorted set with the client itself.
UpdateCounterEffectiveness(my_card, enemy_card, success, o) ==
    LET key == <<my_card, "counters">>
        score == new_score(redis_zset[key], enemy_card, success)
    IN /\ redis_available
       /\ o \in OutcomesIn(store_mode) /\ ~o.exc
       /\ score >= DefaultScore - MaxLearned
       /\ redis_zset' = [redis_zset EXCEPT ![key] = (enemy_card :> score) @@ @]
       /\ rt_phase' = PhaseAfterWrite(Store(redis_hash, redis_zset'))
       /\ lastOp' = Op("learn", my_card, TRUE, o, EmptyRecord, TRUE, 0)
       /\ UNCHANGED <<json_cards, cacheVars, redis_hash, backup_file,
                      exported_from, envVars, sideVars>>

-----------------------------------------------------------------------------
(* DataBackupManager *)

\* ZRANGE key 0 -1 returns the members by score, then by name.
PeerOrder == <<"Archers", "Valkyrie">>
PeerRank(p) == CHOOSE i \in 1..Len(PeerOrder) : PeerOrder[i] = p

ZLess(z, p, q) ==
    \/ z[p] < z[q]
    \/ z[p] = z[q] /\ PeerRank(p) < PeerRank(q)

RECURSIVE zrange(_)
zrange(z) ==
    IF DOMAIN z = {} THEN <<>>
    ELSE LET first == CHOOSE p \in DOMAIN z :
                         \A q \in DOMAIN z \ {p} : ZLess(z, p, q)
         IN <<first>> \o zrange([q \in DOMAIN z \ {first} |-> z[q]])

ExportedKindsWithoutCounteredBy == {"counters", "synergies"}

\* The kinds backup_to_json reads back, each when its key exists.
ExportedKinds == {"counters", "synergies", "countered_by"}

\* backup_data of backup_to_json: every hash key "card:<name>", its fields
\* and the members of its sorted sets.
backup_data(s) ==
    [n \in {m \in Names : s.hash[m] # EmptyMap} |->
        Card(s.hash[n],
             [k \in {x \in ExportedKinds : s.zset[<<n, x>>] # EmptyMap} |->
                 zrange(s.zset[<<n, k>>])])]

backup_to_json_checks_latency(o) == redis_available /\ operation_succeeds(o)

backup_to_json_ignores_availability(o) == ~o.exc

\* What backup_to_json returns when the store answers the reads with outcome o.
backup_to_json_returns(o) == redis_available /\ ~o.exc

\* The body of backup_to_json(): it reads the store with the client itself, so
\* a slow answer goes unnoticed and a raising one ends in the except clause.
\* The file is named after the second it is written in.
BackupToJson(o) ==
    /\ IF redis_available THEN o \in OutcomesIn(store_mode) ELSE o = NoOutcome
    /\ IF backup_to_json_returns(o)
       THEN /\ backup_file' = File(backup_data(Store(redis_hash, redis_zset)))
            /\ exported_from' = Store(redis_hash, redis_zset)
            /\ rt_phase' = "exported"
            /\ backup_dir' = backup_dir \cup {now}
       ELSE UNCHANGED <<backupVars, backup_dir>>

\* backup_to_json()
Export(o) ==
    /\ BackupToJson(o)
    /\ lastOp' = Op("export", "", redis_available, o, EmptyRecord,
                    backup_to_json_returns(o), 0)
    /\ UNCHANGED <<json_cards, cacheVars, storeVars, envVars, backup_marker,
                   auto_calls, callers, gateVars, monitorVars, executing>>

\* The sequences that list each element of S once.
Orders(S) ==
    {q \in [1..Cardinality(S) -> S] : \A x \in S : \E i \in DOMAIN q : q[i] = x}

RECURSIVE RestoreWrites(_, _, _)
RestoreWrites(data, order, n) ==
    IF n = 0 THEN <<>>
    ELSE RestoreWrites(data, order, n - 1) \o Writes(order[n], data[order[n]])

\* A Python bool, and the integer it is (bool is a subclass of int).
PyBool(b) == [t |-> "bool", v |-> IF b THEN "True" ELSE "False"]
bool_as_int(x) == IF x = PyBool(TRUE) THEN 1 ELSE 0

\* restored_count of restore_from_json when the first k remote writes
\* succeed: the cards whose store_card call found the store available and so
\* returned True, which are those up to the card whose write tripped.
restored_count(data, order, k) ==
    Cardinality({n \in 1..Len(order) :
                    Len(RestoreWrites(data, order, n - 1)) <= k})

\* What a restore_from_json call returned, beside the count it printed.
Restored(returned, count) ==
    [returned |-> PyBool(returned), restored_count |-> count]

\* restore_from_json(backup_path): store_card for every card of the file, in
\* the file's order. After a trip the remaining store_card calls return at once.
Restore(path, order, k, o) ==
    IF ~redis_available \/ path = "missing" \/ ~backup_file.exists
    THEN /\ k = 0 /\ o = NoOutcome /\ order = <<>>
         /\ lastOp' = Op("import", path, redis_available, o,
                         Restored(FALSE, 0), FALSE, 0)
         /\ UNCHANGED <<json_cards, cacheVars, storeVars, backupVars, envVars, sideVars>>
    ELSE LET ws == RestoreWrites(backup_file.data, order, Len(order)) IN
         /\ order \in Orders(DOMAIN backup_file.data)
         /\ k \in 0..Len(ws)
         /\ o \in OutcomesIn(store_mode)
         /\ (k = Len(ws)) = operation_succeeds(o)
         /\ k < Len(ws) => fallback_count < MaxFallbacks
         /\ LET s == PutEffects(ws, k, o) IN
              /\ redis_hash' = s.hash
              /\ redis_zset' = s.zset
              /\ rt_phase' = IF rt_phase = "emptied" /\ k = Len(ws)
                             THEN "restored" ELSE PhaseAfterWrite(s)
         /\ IF k < Len(ws)
            THEN SetCache(trigger_fallback(fallback_count, now))
            ELSE UNCHANGED cacheVars
         /\ lastOp' = Op("import", path, TRUE, o,
                         Restored(TRUE,
                                  restored_count(backup_file.data, order, k)),
                         TRUE, 0)
         /\ UNCHANGED <<json_cards, backup_file, exported_from, envVars, sideVars>>

\* The explicit reset: an operator empties the remote store.
FlushStore ==
    /\ Store(redis_hash, redis_zset) # EmptyStore
    /\ redis_hash' = EmptyStore.hash
    /\ redis_zset' = EmptyStore.zset
    /\ rt_phase' = IF backup_file.exists THEN "emptied" ELSE "none"
    /\ UNCHANGED <<json_cards, cacheVars, backup_file, exported_from, envVars,
                   sideVars, lastOp>>

\* The intervals and keep counts the callers pass.
Intervals == {1, 2}
KeepCounts == {0, 1, 2}

backup_is_due_since_start(marker, current_time, interval_seconds) ==
    \/ marker = NoMarker
    \/ current_time >= interval_seconds

\* current_time - last_backup_time >= interval_seconds, where a missing marker
\* reads as time 0 and time.time() is then beyond every interval.
backup_is_due(marker, current_time, interval_seconds) ==
    \/ marker = NoMarker
    \/ current_time - marker >= interval_seconds

\* The record of one auto_backup call: when it was made and with what
\* interval, whether the store was available, whether it called
\* backup_to_json, whether that exported and what the call returned.
AutoCall(interval, due, o) ==
    [t |-> now, interval |-> interval, available |-> redis_available,
     attempted |-> due,
     exported |-> due /\ backup_to_json_returns(o),
     returned |-> due /\ backup_to_json_returns(o)]

marker_after_attempt(marker, due, exported, current_time) ==
    IF due THEN current_time ELSE marker

\* last_backup.txt after auto_backup: str(current_time) is written when
\* backup_to_json returned True.
marker_after(marker, due, exported, current_time) ==
    IF exported THEN current_time ELSE marker

\* auto_backup(interval_seconds)
AutoBackup(interval_seconds, o) ==
    LET due == backup_is_due(backup_marker, now, interval_seconds)
        ok == due /\ backup_to_json_returns(o)
    IN /\ IF due
          THEN BackupToJson(o)
          ELSE o = NoOutcome /\ UNCHANGED <<backupVars, backup_dir>>
       /\ backup_marker' = marker_after(backup_marker, due, ok, now)
       /\ auto_calls' = <<AutoCall(interval_seconds, due, o)>>
       /\ lastOp' = Op("auto_backup", interval_seconds, redis_available, o,
                       [previous |-> auto_calls,
                        call |-> AutoCall(interval_seconds, due, o)],
                       ok, 0)
       /\ UNCHANGED <<json_cards, cacheVars, storeVars, envVars, callers,
                      gateVars, monitorVars, executing>>

\* auto_backup(interval_seconds) run by concurrent callers, in the steps
\* another caller can come between: reading the marker, testing the time and
\* exporting, writing the marker.
Callers == DOMAIN callers

marker_now(c) == backup_marker

\* last_backup_time of caller c: what it read from the marker file.
marker_read(c) == callers[c].last_backup_time

RaceFrame ==
    UNCHANGED <<json_cards, cacheVars, storeVars, envVars, auto_calls,
                gateVars, monitorVars, executing>>

\* Lines 84 to 88: caller c enters auto_backup and reads the marker.
ReadMarker(c, interval_seconds) ==
    /\ callers[c].pc = "idle"
    /\ callers' = [callers EXCEPT ![c] =
                      [@ EXCEPT !.pc = "read",
                                !.interval = interval_seconds,
                                !.last_backup_time = backup_marker]]
    /\ lastOp' = Op("auto_read", c, redis_available, NoOutcome, EmptyRecord,
                    TRUE, 0)
    /\ UNCHANGED <<backupVars, backup_dir, backup_marker>>
    /\ RaceFrame

\* Lines 90 to 92: caller c reads the time and, the backup being due by the
\* marker it read, calls backup_to_json; when that fails or nothing is due
\* the call returns False.
RunExport(c, o) ==
    LET due == backup_is_due(marker_read(c), now, callers[c].interval)
        ok == due /\ backup_to_json_returns(o)
    IN /\ callers[c].pc = "read"
       /\ IF due
          THEN BackupToJson(o)
          ELSE o = NoOutcome /\ UNCHANGED <<backupVars, backup_dir>>
       /\ callers' = [callers EXCEPT ![c] =
                         [@ EXCEPT !.pc = IF ok THEN "exported" ELSE "idle",
                                   !.current_time = now,
                                   !.exported_at = IF ok THEN now ELSE @]]
       /\ lastOp' = Op("auto_export", c, redis_available, o, EmptyRecord,
                       ok, 0)
       /\ UNCHANGED backup_marker
       /\ RaceFrame

\* Lines 93 to 95: caller c writes its current_time to the marker and
\* returns True.
WriteMarker(c) ==
    /\ callers[c].pc = "exported"
    /\ backup_marker' = callers[c].current_time
    /\ callers' = [callers EXCEPT ![c] = [@ EXCEPT !.pc = "idle"]]
    /\ lastOp' = Op("auto_write", c, redis_available, NoOutcome, EmptyRecord,
                    TRUE, 0)
    /\ UNCHANGED <<backupVars, backup_dir>>
    /\ RaceFrame

sorted_oldest_first(files) ==
    IF files = {} THEN <<>>
    ELSE [i \in 1..Cardinality(files) |->
            CHOOSE f \in files : Cardinality({g \in files : g < f}) = i - 1]

\* backup_files.sort(key=mtime, reverse=True): a file's modification time is
\* the second it was written in, which also names it.
sorted_newest_first(files) ==
    IF files = {} THEN <<>>
    ELSE [i \in 1..Cardinality(files) |->
            CHOOSE f \in files : Cardinality({g \in files : g > f}) = i - 1]

\* backup_files[keep_count:]
beyond_keep_count(files, keep_count) ==
    LET sorted == sorted_newest_first(files)
    IN {sorted[i] : i \in (keep_count + 1)..Len(sorted)}

\* Does the file backup_to_json wrote last (the newest one) go with removed?
LastBackupRemoved(removed) ==
    /\ backup_file.exists
    /\ \E f \in removed : \A g \in backup_dir : g <= f

cleanup_stops_at_failure(old, undeletable) ==
    {f \in old : \A u \in undeletable : f > u}

\* The loop over backup_files[keep_count:], newest first: the files it
\* removes when os.remove raises for those of undeletable. Each os.remove has
\* its own try, so a failure is logged and the loop takes the next file.
cleanup_removes(old, undeletable) == old \ undeletable

\* cleanup_old_backups(keep_count): os.remove fails for the files of
\* undeletable, which is logged, and the loop goes on.
CleanupOldBackups(keep_count, undeletable) ==
    LET old == beyond_keep_count(backup_dir, keep_count)
        removed == cleanup_removes(old, undeletable)
    IN /\ undeletable \subseteq old
       /\ backup_dir' = backup_dir \ removed
       /\ IF LastBackupRemoved(removed)
          THEN /\ backup_file' = NoFile
               /\ rt_phase' = IF rt_phase = "restored" THEN rt_phase ELSE "none"
          ELSE UNCHANGED <<backup_file, rt_phase>>
       /\ lastOp' = Op("cleanup", keep_count, redis_available, NoOutcome,
                       [before |-> backup_dir, failed |-> undeletable], TRUE, 0)
       /\ UNCHANGED <<json_cards, cacheVars, storeVars, exported_from, envVars,
                      backup_marker, auto_calls, callers, gateVars,
                      monitorVars, executing>>

-----------------------------------------------------------------------------
(* FeatureManager *)

ProtectedFeature == "PERFORMANCE_MONITORING"
Features == {"REDIS", "LEARNING", "COUNTER_STRATEGY", "OPPONENT_TRACKING",
             ProtectedFeature}
TestedFeatures == Features \ {ProtectedFeature}

\* A name no flag exists for.
UnknownFeature == "UNKNOWN"
FeatureNames == Features \cup {UnknownFeature}

\* self.features of __init__
default_features == [f \in Features |-> f = ProtectedFeature]

\* feature_flags.json: missing, not JSON, or an object giving some flags.
NoFlagsFile == [kind |-> "absent", saved |-> EmptyMap]
FlagFiles ==
    {NoFlagsFile, [kind |-> "garbage", saved |-> EmptyMap]}
        \cup {[kind |-> "object", saved |-> m] :
                 m \in UNION {[S -> BOOLEAN] : S \in SUBSET Features}}

\* load_feature_flags: self.features.update(saved_features)
load_feature_flags(file) ==
    IF file.kind = "object"
    THEN [f \in Features |->
            IF f \in DOMAIN file.saved THEN file.saved[f]
            ELSE default_features[f]]
    ELSE default_features

\* What the self-tests find: probe[f] is what the test of f returns (False
\* also when it raises). The test of the protected feature always passes.
Probes == [TestedFeatures -> BOOLEAN]

\* _test_feature(feature_name)
test_feature(feature_name, probe) ==
    IF feature_name = ProtectedFeature THEN TRUE
    ELSE IF feature_name \in DOMAIN probe THEN probe[feature_name]
    ELSE FALSE

GateResult(flags, returned, tested) ==
    [features |-> flags, returned |-> returned, tested |-> tested]

\* enable_feature(feature_name, force): the flags after it, what it returns
\* and the features whose self-test it ran.
enable_feature(flags, feature_name, force, probe) ==
    IF feature_name \notin DOMAIN flags THEN GateResult(flags, FALSE, {})
    ELSE IF ~force /\ ~test_feature(feature_name, probe)
    THEN GateResult(flags, FALSE, {feature_name})
    ELSE GateResult([flags EXCEPT ![feature_name] = TRUE], TRUE,
                    IF force THEN {} ELSE {feature_name})

\* disable_feature(feature_name)
disable_feature(flags, feature_name) ==
    IF feature_name \notin DOMAIN flags THEN GateResult(flags, FALSE, {})
    ELSE IF feature_name = ProtectedFeature THEN GateResult(flags, FALSE, {})
    ELSE GateResult([flags EXCEPT ![feature_name] = FALSE], TRUE, {})

emergency_disable_everything(flags) == [f \in DOMAIN flags |-> FALSE]

\* emergency_disable_all()
emergency_disable_all(flags) ==
    [f \in DOMAIN flags |-> IF f # ProtectedFeature THEN FALSE ELSE flags[f]]

\* The loop of gradual_rollout from position i of features_order: the flags
\* after it, the features whose self-test ran, and the position of the
\* feature that failed to enable (0: none).
RECURSIVE rollout_from(_, _, _, _)
rollout_from(flags, features_order, i, probe) ==
    IF i > Len(features_order)
    THEN [features |-> flags, tested |-> {}, failed_at |-> 0]
    ELSE IF features_order[i] \notin DOMAIN flags
    THEN rollout_from(flags, features_order, i + 1, probe)
    ELSE LET r == enable_feature(flags, features_order[i], FALSE, probe) IN
         IF r.returned
         THEN LET rest == rollout_from(r.features, features_order, i + 1, probe)
              IN [features |-> rest.features,
                  tested |-> r.tested \cup rest.tested,
                  failed_at |-> rest.failed_at]
         ELSE [features |-> r.features, tested |-> r.tested, failed_at |-> i]

\* features_order when gradual_rollout is given none
default_features_order ==
    <<"REDIS", "OPPONENT_TRACKING", "COUNTER_STRATEGY", "LEARNING">>

\* The orders a caller passes: the default one, and every order of three
\* different names out of four.
RolloutOrders ==
    {default_features_order}
        \cup {q \in [1..3 -> {"REDIS", "LEARNING", "COUNTER_STRATEGY",
                               UnknownFeature}] :
                 \A i, j \in 1..3 : i # j => q[i] # q[j]}

\* The record of a call on the gate: the flags before it, what it was given,
\* the features whose self-test it ran and those of them whose test passed.
GateOp(op, arg, force, probe, r, failed_at) ==
    Op(op, arg, redis_available, NoOutcome,
       [before |-> features, force |-> force, tested |-> r.tested,
        passed |-> {f \in r.tested : test_feature(f, probe)},
        failed_at |-> failed_at],
       r.returned, 0)

GateFrame ==
    UNCHANGED <<json_cards, cacheVars, storeVars, backupVars, envVars, dirVars,
                monitorVars, executing>>

EnableFeature(feature_name, force, probe) ==
    LET r == enable_feature(features, feature_name, force, probe)
    IN /\ features' = r.features
       /\ lastOp' = GateOp("enable", feature_name, force, probe, r, 0)
       /\ GateFrame

DisableFeature(feature_name) ==
    LET r == disable_feature(features, feature_name)
    IN /\ features' = r.features
       /\ lastOp' = GateOp("disable", feature_name, FALSE, EmptyMap, r, 0)
       /\ GateFrame

EmergencyDisableAll ==
    LET r == GateResult(emergency_disable_all(features), TRUE, {})
    IN /\ features' = r.features
       /\ lastOp' = GateOp("emergency", "", FALSE, EmptyMap, r, 0)
       /\ GateFrame

GradualRollout(features_order, probe) ==
    LET r == rollout_from(features, features_order, 1, probe)
    IN /\ features' = r.features
       /\ lastOp' = GateOp("rollout", features_order, FALSE, probe,
                           GateResult(r.features, r.failed_at = 0, r.tested),
                           r.failed_at)
       /\ GateFrame

-----------------------------------------------------------------------------
(* PerformanceMonitor *)

\* The decision times a caller reports, in ms.
SampleTimes == {100, 600}

\* The buffer sizes a caller constructs the monitor with, beside the default.
Capacities == {1, 2, 3}

\* The time and outcome of the store operations a caller reports.
RedisSampleTimes == {10, 60}

deque_append_keeps_oldest(q, x, maxlen) ==
    IF Len(q) < maxlen THEN Append(q, x) ELSE q

\* deque(maxlen=max_samples).append: a full deque drops its oldest item.
deque_append(q, x, maxlen) ==
    IF maxlen = 0 THEN <<>>
    ELSE IF Len(q) < maxlen THEN Append(q, x)
    ELSE Append(Tail(q), x)

RECURSIVE sum(_)
sum(q) == IF q = <<>> THEN 0 ELSE Head(q) + sum(Tail(q))

\* A quotient of two numbers, kept as the pair it is computed from.
Rat(num, den) == [num |-> num, den |-> den]

maximum_of_newest(q) == q[Len(q)]

\* max(q) of a sequence that is not empty
maximum(q) == CHOOSE x \in {q[i] : i \in DOMAIN q} : \A i \in DOMAIN q : q[i] <= x

\* self.metrics of __init__, and after reset_metrics
NoMetrics ==
    [total_decisions |-> 0, avg_decision_time |-> Rat(0, 1),
     max_decision_time |-> 0, redis_failures |-> 0,
     fallback_activations |-> 0, performance_warnings |-> 0]

NoSamples == [decision |-> <<>>, redis |-> <<>>, since_reset |-> 0]

\* list(q)[-n:]
last_n(q, n) == IF Len(q) <= n THEN q ELSE SubSeq(q, Len(q) - n + 1, Len(q))

\* The events of fallback_events less than a minute old at time t.
recent_fallbacks(events, t) ==
    {i \in DOMAIN events : t - events[i] < FallbackWindowSeconds}

\* should_disable_features(); avg_recent > decision_time_critical is stated
\* on the sum, sum / len being a division of floats.
should_disable_features(times, events, t) ==
    IF Len(times) < RecentSamples THEN FALSE
    ELSE LET recent_times == last_n(times, RecentSamples)
         IN IF sum(recent_times) > decision_time_critical * Len(recent_times)
            THEN TRUE
            ELSE Cardinality(recent_fallbacks(events, t)) > FrequentFallbacks

MonitorFrame ==
    UNCHANGED <<json_cards, cacheVars, storeVars, backupVars, envVars, dirVars,
                gateVars, executing>>

\* self.metrics after track_decision_time appended decision_time_ms and the
\* deque became q.
metrics_after_decision(m, q, decision_time_ms) ==
    [m EXCEPT
        !.total_decisions = @ + 1,
        !.avg_decision_time = IF q # <<>> THEN Rat(sum(q), Len(q)) ELSE @,
        !.max_decision_time = IF q # <<>> THEN maximum(q) ELSE @,
        !.performance_warnings =
            IF decision_time_ms > decision_time_critical THEN @ + 1
            ELSE IF decision_time_ms > decision_time_warning THEN @ + 1
            ELSE @]

\* track_decision_time(decision_time_ms)
TrackDecisionTime(decision_time_ms) ==
    /\ Len(tracked.decision) < MaxSamples
    /\ LET q == deque_append(decision_times, decision_time_ms, max_samples)
       IN /\ decision_times' = q
          /\ metrics' = metrics_after_decision(metrics, q, decision_time_ms)
    /\ tracked' = [tracked EXCEPT !.decision = Append(@, decision_time_ms),
                                  !.since_reset = @ + 1]
    /\ lastOp' = Op("track", decision_time_ms, redis_available, NoOutcome,
                    EmptyRecord, TRUE, 0)
    /\ UNCHANGED <<max_samples, redis_operation_times, fallback_events>>
    /\ MonitorFrame

\* track_redis_operation(operation_time_ms, success)
TrackRedisOperation(operation_time_ms, success) ==
    /\ Len(tracked.redis) < MaxSamples
    /\ redis_operation_times' =
           deque_append(redis_operation_times, operation_time_ms, max_samples)
    /\ metrics' = [metrics EXCEPT
                      !.redis_failures = IF success THEN @ ELSE @ + 1]
    /\ tracked' = [tracked EXCEPT !.redis = Append(@, operation_time_ms)]
    /\ lastOp' = Op("track_redis", operation_time_ms, redis_available,
                    NoOutcome, EmptyRecord, success, 0)
    /\ UNCHANGED <<max_samples, decision_times, fallback_events>>
    /\ MonitorFrame

\* record_fallback_event(reason)
RecordFallbackEvent(reason) ==
    /\ Len(fallback_events) < MaxEvents
    /\ fallback_events' = Append(fallback_events, now)
    /\ metrics' = [metrics EXCEPT !.fallback_activations = @ + 1]
    /\ lastOp' = Op("fallback_event", reason, redis_available, NoOutcome,
                    EmptyRecord, TRUE, 0)
    /\ UNCHANGED <<max_samples, decision_times, redis_operation_times,
                   tracked>>
    /\ MonitorFrame

\* reset_metrics(): the buffers are cleared and every metric is set to 0.
ResetMetrics ==
    /\ decision_times' = <<>>
    /\ redis_operation_times' = <<>>
    /\ fallback_events' = <<>>
    /\ metrics' = NoMetrics
    /\ lastOp' = Op("reset", "", redis_available, NoOutcome, EmptyRecord,
                    TRUE, 0)
    /\ tracked' = [tracked EXCEPT !.since_reset = 0]
    /\ UNCHANGED max_samples
    /\ MonitorFrame

\* should_disable_features(), its answer kept in lastOp.ok
ShouldDisableFeatures ==
    /\ lastOp' = Op("should_disable", "", redis_available, NoOutcome,
                    EmptyRecord,
                    should_disable_features(decision_times, fallback_events,
                                            now),
                    0)
    /\ UNCHANGED monitorVars
    /\ MonitorFrame

-----------------------------------------------------------------------------
(* Construction *)

\* FeatureManager.__init__ over a flags file drawn from files.
GateConstruct(files) == \E file \in files : features = load_feature_flags(file)

\* PerformanceMonitor.__init__ with max_samples drawn from capacities.
MonitorConstruct(capacities) ==
    /\ max_samples \in capacities
    /\ decision_times = <<>>
    /\ redis_operation_times = <<>>
    /\ fallback_events = <<>>
    /\ metrics = NoMetrics
    /\ tracked = NoSamples

\* PerformanceMonitor()
MonitorInit == MonitorConstruct({default_max_samples})

\* Every component constructed, the gate finding no flags file.
Init == ManagerInit /\ GateConstruct({NoFlagsFile}) /\ MonitorInit

\* The one construction with the store switched off and no snapshot, for the
\* components that do not use the store.
QuietManagerInit ==
    ManagerInit /\ ~enable_redis /\ cards_file = "absent"
        /\ store_mode = "healthy"

-----------------------------------------------------------------------------
(* The environment *)

\* The remote store starts or stops answering in time.
EnvChange ==
    /\ store_mode' \in StoreModes \ {store_mode}
    /\ UNCHANGED <<enable_redis, cards_file, now, json_cards, cacheVars,
                   storeVars, backupVars, sideVars, lastOp>>

\* Time passes.
Tick ==
    /\ now < MaxTime
    /\ now' = now + 1
    /\ UNCHANGED <<enable_redis, cards_file, store_mode, json_cards, cacheVars,
                   storeVars, backupVars, sideVars, lastOp>>

\* A minute passes.
MinutePasses ==
    /\ now <= MaxTime
    /\ now' = now + FallbackWindowSeconds
    /\ UNCHANGED <<enable_redis, cards_file, store_mode, json_cards, cacheVars,
                   storeVars, backupVars, sideVars, lastOp>>

\* The orders in which restore_from_json may meet the cards of the file.
RestoreOrders(path) ==
    IF ~redis_available \/ path = "missing" \/ ~backup_file.exists
    THEN {<<>>} ELSE Orders(DOMAIN backup_file.data)

\* The calls on the adapter and the controller, the trips drawn from the
\* given reasons and durations.
CacheCalls(reasons, durations) ==
    \/ \E n \in Names, o \in OutcomesIn(store_mode) : GetRecord(n, o)
    \/ \E n \in Names : \E c \in PutInputs(n) :
          \E k \in 0..Len(Writes(n, c)), o \in Outcomes \cup {NoOutcome} :
             Put(n, c, k, o)
    \/ \E r \in reasons, d \in durations : Trip(r, d)
    \/ \E o \in Outcomes \cup {NoOutcome} : AttemptRecovery(o)
    \/ EnvChange

CacheNext == CacheCalls(ErrorTypes, Durations)

\* The calls on the backup manager, and the reset of the store.
BackupNext ==
    \/ \E o \in Outcomes \cup {NoOutcome} : Export(o)
    \/ \E path \in {"backup", "missing"} : \E order \in RestoreOrders(path) :
          \E k \in 0..Len(RestoreWrites(backup_file.data, order, Len(order))),
             o \in Outcomes \cup {NoOutcome} :
                Restore(path, order, k, o)
    \/ FlushStore

Next == CacheNext \/ Tick

\* The adapter and the controller, from every construction, as time passes.
Spec == Init /\ [][Next]_vars

\* The backup directory: auto_backup and cleanup_old_backups with the calls
\* that make the store available or not, as time passes.
DirInit == Init /\ cards_file = "absent"
DirNext ==
    \/ \E i \in Intervals, o \in Outcomes \cup {NoOutcome} : AutoBackup(i, o)
    \/ \E k \in KeepCounts, u \in SUBSET backup_dir : CleanupOldBackups(k, u)
    \/ \E o \in Outcomes \cup {NoOutcome} : AttemptRecovery(o)
    \/ EnvChange
    \/ Tick
DirSpec == DirInit /\ [][DirNext]_vars

\* cards.json is put in place after the manager was constructed.
CardsFileWritten ==
    /\ cards_file # "object"
    /\ cards_file' = "object"
    /\ UNCHANGED <<enable_redis, store_mode, now, json_cards, cacheVars,
                   storeVars, backupVars, sideVars, lastOp>>

\* A qualifying trip running statement by statement while another thread
\* reads cards.
StepwiseNext ==
    \/ \E reason \in {"timeout", "corruption"}, d \in {0, 101} :
            DisableStore(reason, d)
    \/ EnsureSnapshot
    \/ CountFallback
    \/ StampFallback
    \/ \E n \in Names, o \in OutcomesIn(store_mode) : GetRecord(n, o)
    \/ CardsFileWritten
    \/ Tick
StepwiseSpec == Init /\ [][StepwiseNext]_vars

\* Two callers of auto_backup on one backup directory, as time passes.
RaceNext ==
    \/ \E c \in Callers : ReadMarker(c, 2)
    \/ \E c \in Callers, o \in Outcomes \cup {NoOutcome} : RunExport(c, o)
    \/ \E c \in Callers : WriteMarker(c)
    \/ Tick
RaceSpec == DirInit /\ [][RaceNext]_vars

\* The feature gate, constructed over any flags file.
GateInit == QuietManagerInit /\ GateConstruct(FlagFiles) /\ MonitorInit
GateNext ==
    \/ \E f \in FeatureNames, force \in BOOLEAN, passed \in BOOLEAN :
          EnableFeature(f, force, [t \in TestedFeatures |-> passed])
    \/ \E f \in FeatureNames : DisableFeature(f)
    \/ EmergencyDisableAll
    \/ \E q \in RolloutOrders, probe \in Probes : GradualRollout(q, probe)
GateSpec == GateInit /\ [][GateNext]_vars

\* The performance monitor, a minute passing at most once.
MonitorSpecInit == QuietManagerInit /\ GateConstruct({NoFlagsFile}) /\ MonitorInit
MonitorNext ==
    \/ \E d \in SampleTimes : TrackDecisionTime(d)
    \/ \E r \in {"timeout"} : RecordFallbackEvent(r)
    \/ ShouldDisableFeatures
    \/ MinutePasses
MonitorSpec == MonitorSpecInit /\ [][MonitorNext]_vars

\* The buffers of the monitor, constructed with a small max_samples.
RingInit ==
    QuietManagerInit /\ GateConstruct({NoFlagsFile})
        /\ MonitorConstruct(Capacities)
RingNext ==
    \/ \E d \in SampleTimes :
          Len(tracked.decision) < MaxTracked /\ TrackDecisionTime(d)
    \/ \E d \in RedisSampleTimes, success \in BOOLEAN :
          Len(tracked.redis) < MaxTracked /\ TrackRedisOperation(d, success)
RingSpec == RingInit /\ [][RingNext]_vars

\* The metrics of the monitor, with a small max_samples and resets.
MetricsNext ==
    \/ \E d \in SampleTimes :
          Len(tracked.decision) < MaxTracked /\ TrackDecisionTime(d)
    \/ ResetMetrics
MetricsSpec == RingInit /\ [][MetricsNext]_vars

\* Every operation, from a construction with the store enabled and a
\* snapshot on disk.
StoreInit == Init /\ enable_redis /\ cards_file = "object"
LearnNext ==
    \E o \in Outcomes, success \in BOOLEAN :
        UpdateCounterEffectiveness("Knight", "Archers", success, o)
StoreNext ==
    \/ CacheCalls({"timeout", "corruption"}, {0, 101})
    \/ BackupNext
    \/ LearnNext
StoreSpec == StoreInit /\ [][StoreNext]_vars

\* The whole subsystem around one card manager: the adapter, the controller,
\* the backup manager, the feature gate and the monitor, each called with a
\* few inputs on the one card Archers, over a store that may answer any call
\* in time, late or not at all.
SystemInit == StoreInit /\ store_mode = "degraded"
AdapterNext ==
    \/ \E o \in OutcomesIn(store_mode) : GetRecord("Archers", o)
    \/ \E k \in 0..Len(Writes("Archers", ArchersCard)),
          o \in Outcomes \cup {NoOutcome} : Put("Archers", ArchersCard, k, o)
ControllerNext ==
    \/ \E d \in {0, 101} : Trip("timeout", d)
    \/ \E o \in Outcomes \cup {NoOutcome} : AttemptRecovery(o)
BackupCalls ==
    \/ \E o \in Outcomes \cup {NoOutcome} : Export(o)
    \/ \E path \in {"backup", "missing"} : \E order \in RestoreOrders(path) :
          \E k \in 0..Len(RestoreWrites(backup_file.data, order, Len(order))),
             o \in Outcomes \cup {NoOutcome} :
                Restore(path, order, k, o)
    \/ \E o \in Outcomes \cup {NoOutcome} : AutoBackup(1, o)
    \/ CleanupOldBackups(0, {})
GateCalls ==
    \/ \E force, passed \in BOOLEAN :
          EnableFeature("REDIS", force, [t \in TestedFeatures |-> passed])
    \/ \E f \in {"REDIS", ProtectedFeature} : DisableFeature(f)
    \/ EmergencyDisableAll
    \/ GradualRollout(<<"REDIS", "LEARNING">>,
                      [t \in TestedFeatures |-> t = "REDIS"])
MonitorCalls ==
    \/ decision_times = <<>> /\ TrackDecisionTime(600)
    \/ fallback_events = <<>> /\ RecordFallbackEvent("timeout")
    \/ ShouldDisableFeatures
SystemNext ==
    \/ AdapterNext
    \/ ControllerNext
    \/ BackupCalls
    \/ GateCalls
    \/ MonitorCalls
SystemSpec == SystemInit /\ [][SystemNext]_vars

\* The adapter and the controller with a host whose decision loop keeps
\* reading records. Nothing in the program calls attempt_recovery by itself,
\* so no fairness is stated for it.
HostReads == \E n \in Names, o \in OutcomesIn(store_mode) : GetRecord(n, o)
FairSpec == Init /\ [][Next]_vars /\ WF_vars(HostReads)

-----------------------------------------------------------------------------
(* Properties *)

\* A step that is an attempt_recovery() call.
RecoveryStep ==
    /\ lastOp'.op = "recover"
    /\ AttemptRecovery([lat |-> lastOp'.lat, exc |-> lastOp'.exc])

\* A step that is a trip(reason, d) call that qualifies.
QualifyingTripStep ==
    /\ lastOp'.op = "trip"
    /\ check_fallback_conditions(lastOp'.lat, lastOp'.arg)
    /\ Trip(lastOp'.arg, lastOp'.lat)

\* What the snapshot holds for a name: its record, or the empty record.
SnapshotRecord(name) ==
    IF name \in DOMAIN json_cards THEN json_cards[name] ELSE EmptyRecord

\* The call lastOp records was answered by the remote store.
ServedByStore ==
    /\ lastOp.op = "get" /\ lastOp.was_available
    /\ InTime([lat |-> lastOp.lat, exc |-> lastOp.exc])
    /\ redis_hash[lastOp.arg] # EmptyMap

\* C1: availability goes from false to true only in a step that is an
\* attemptRecovery() call whose connect succeeded (the ping returned within
\* MAX_REDIS_LATENCY_MS); no other operation sets it to true.
C1_OnlyRecoverySetsAvailable ==
    [][(~redis_available /\ redis_available') =>
          /\ RecoveryStep
          /\ InTime([lat |-> lastOp'.lat, exc |-> lastOp'.exc])]_vars

C1_Witness ==
    /\ lastOp.op = "recover" /\ ~lastOp.was_available
    /\ redis_available /\ fallback_count > 0

\* C2: a trip whose reason has threshold 0 (connection_lost, memory_full,
\* corruption) leaves availability false, whatever the duration and whether
\* the state was AVAILABLE or FALLBACK.
C2_ImmediateReasonsTrip ==
    (/\ lastOp.op = "trip"
     /\ lastOp.arg \in {"connection_lost", "memory_full", "corruption"})
        => ~redis_available

C2_Witness ==
    /\ lastOp.op = "trip" /\ lastOp.arg = "corruption" /\ lastOp.lat = 0
    /\ lastOp.was_available /\ ~redis_available

\* C3: fallback_count never decreases, and every qualifying trip call raises
\* it by exactly 1, also when the state is already FALLBACK.
C3_CountMonotoneTripAddsOne ==
    [][/\ fallback_count' >= fallback_count
       /\ QualifyingTripStep => fallback_count' = fallback_count + 1]_vars

C3_Witness ==
    /\ lastOp.op = "trip" /\ lastOp.ok /\ ~lastOp.was_available
    /\ fallback_count = 2

\* C4: an attemptRecovery() call whose connect fails (the ping raises, or
\* takes longer than MAX_REDIS_LATENCY_MS) leaves availability,
\* fallback_count and last_fallback_time as they were.
C4_FailedRecoveryChangesNothing ==
    [][(RecoveryStep /\ ~InTime([lat |-> lastOp'.lat, exc |-> lastOp'.exc]))
          => UNCHANGED cacheVars]_vars

\* C5: a trip whose reason has a nonzero threshold (timeout, high_latency)
\* and whose duration is below that threshold and below the general 50ms
\* floor leaves availability as it was.
C5_ShortTripKeepsAvailability ==
    (/\ lastOp.op = "trip"
     /\ lastOp.arg \in {"timeout", "high_latency"}
     /\ lastOp.lat < fallback_triggers[lastOp.arg]
     /\ lastOp.lat < GeneralFallbackMs)
        => redis_available = lastOp.was_available

C5_Witness ==
    /\ lastOp.op = "trip" /\ lastOp.arg = "timeout" /\ lastOp.lat = 0
    /\ lastOp.was_available /\ redis_available

C8_RecoversByItself ==
    []((enable_redis /\ ~redis_available)
          => (<>[](store_mode = "healthy") => <>redis_available))

\* C8 as amended: once in FALLBACK, the system stays in FALLBACK through
\* every step that is not an attemptRecovery() call, however healthy the
\* store is; an attemptRecovery() call made with the store enabled while the
\* store answers in time returns it to AVAILABLE.
C8_RecoversOnlyWhenAsked ==
    [][/\ (~redis_available /\ ~RecoveryStep) => ~redis_available'
       /\ (RecoveryStep /\ enable_redis /\ store_mode = "healthy")
             => redis_available']_vars

C8_Witness ==
    /\ lastOp.op = "recover" /\ ~lastOp.was_available /\ lastOp.ok
    /\ store_mode = "healthy" /\ redis_available /\ last_fallback_time > 0

\* The remote hash of a name holds what store_card writes for the
\* snapshot's record of that name.
InSync(name) ==
    /\ name \in DOMAIN json_cards
    /\ redis_hash[name] = static_props(json_cards[name])

\* C9: for a name whose data is the same in the remote store and in the
\* snapshot, a get answered by the remote store returns the scalar fields
\* with the values the snapshot gives.
C9_SameScalarsFromEitherSource ==
    (ServedByStore /\ InSync(lastOp.arg))
        => lastOp.res.props = SnapshotRecord(lastOp.arg).props

\* Record n of store s2 has the scalar fields it has in s1 and, for each
\* kind, the same set of peer names.
SameRecord(s1, s2, n) ==
    /\ s2.hash[n] = s1.hash[n]
    /\ \A k \in Kinds : DOMAIN s2.zset[<<n, k>>] = DOMAIN s1.zset[<<n, k>>]

\* C10: after an export, an emptying of the store and a complete import of
\* the exported file, every record that was in the store at the export has
\* the same scalar fields and, for each of the three kinds, the same set of
\* peer names.
C10_RoundTrip ==
    rt_phase = "restored" =>
        \A n \in Names :
            exported_from.hash[n] # EmptyMap =>
                SameRecord(exported_from, Store(redis_hash, redis_zset), n)

C10_Witness ==
    /\ rt_phase = "restored" /\ lastOp.op = "import"
    /\ \A n \in Names : exported_from.hash[n] # EmptyMap
    /\ exported_from.zset[<<"Knight", "countered_by">>] # EmptyMap
    /\ exported_from.zset[<<"Knight", "counters">>] # redis_zset[<<"Knight", "counters">>]

\* The last call was an auto_backup that followed another one with the same
\* interval, less than that interval before.
CloseAutoBackups ==
    /\ lastOp.op = "auto_backup"
    /\ lastOp.res.previous # <<>>
    /\ lastOp.res.previous[1].interval = lastOp.res.call.interval
    /\ lastOp.res.call.t - lastOp.res.previous[1].t < lastOp.res.call.interval

FirstAutoBackup == lastOp.res.previous[1]
SecondAutoBackup == lastOp.res.call

\* C11 as claimed: of two auto_backup(I) calls less than I seconds apart,
\* both made with the store AVAILABLE, the first exports and the second
\* performs no export and returns false.
C11_FirstExportsSecondDoesNot ==
    (CloseAutoBackups /\ FirstAutoBackup.available
        /\ SecondAutoBackup.available)
        => /\ FirstAutoBackup.exported
           /\ ~SecondAutoBackup.exported
           /\ ~SecondAutoBackup.returned

\* C11 as amended: of two auto_backup(I) calls less than I seconds apart, the
\* first of which returned true, the first was the one export: the second
\* performs no export and returns false.
C11_SecondIsNoOpAfterSuccess ==
    (CloseAutoBackups /\ FirstAutoBackup.returned)
        => /\ FirstAutoBackup.exported
           /\ ~SecondAutoBackup.exported
           /\ ~SecondAutoBackup.returned

C11_Witness ==
    /\ CloseAutoBackups /\ FirstAutoBackup.returned
    /\ SecondAutoBackup.interval = 2 /\ SecondAutoBackup.t = 2
    /\ FirstAutoBackup.t = 1 /\ SecondAutoBackup.available
    /\ backup_dir = {1} /\ backup_marker = 1

\* The k most recently modified files of a directory.
MostRecent(files, k) ==
    {f \in files : Cardinality({g \in files : g > f}) < k}

\* C12 as claimed: after cleanup_old_backups(K) at most K backup files are
\* left, and they are the K most recently modified of the files present
\* before the call.
C12_KeepsExactlyMostRecent ==
    lastOp.op = "cleanup"
        => /\ Cardinality(backup_dir) <= lastOp.arg
           /\ backup_dir = MostRecent(lastOp.res.before, lastOp.arg)

\* C12 as amended: after cleanup_old_backups(K) the files left are the K most
\* recently modified of the files present before the call, and the older
\* ones whose deletion failed; when no deletion failed, at most K are left.
C12_KeepsMostRecentAndUndeletable ==
    lastOp.op = "cleanup"
        => /\ backup_dir =
                 MostRecent(lastOp.res.before, lastOp.arg)
                     \cup lastOp.res.failed
           /\ lastOp.res.failed = {}
                 => Cardinality(backup_dir) <= lastOp.arg

C12_Witness ==
    /\ lastOp.op = "cleanup" /\ lastOp.arg = 1
    /\ lastOp.res.before = {1, 2} /\ lastOp.res.failed = {}
    /\ backup_dir = {2}

\* The last call was enable_feature(name, force=False) on a known name.
UnforcedEnable ==
    /\ lastOp.op = "enable"
    /\ ~lastOp.res.force
    /\ lastOp.arg \in DOMAIN features

\* C13 enable(name, force=false) never ends with the flag of name true unless
\* the self-test of name returned true during that call, whatever the flag
\* was before the call.
C13_EnabledOnlyAfterPassingTest ==
    (UnforcedEnable /\ features[lastOp.arg]) => lastOp.arg \in lastOp.res.passed

\* The last call was disable_feature on the protected feature.
DisableProtected == lastOp.op = "disable" /\ lastOp.arg = ProtectedFeature

\* C14 disable() on PERFORMANCE_MONITORING always returns failure and the
\* feature is enabled after the call, in every reachable state of the gate.
C14_ProtectedStaysEnabled ==
    DisableProtected => (~lastOp.ok /\ features[ProtectedFeature])

\* The last call was gradual_rollout over known features and it stopped at
\* the feature of position i.
RolloutStoppedAt(i) ==
    /\ lastOp.op = "rollout"
    /\ lastOp.res.failed_at = i
    /\ i \in DOMAIN lastOp.arg
    /\ \A j \in DOMAIN lastOp.arg : lastOp.arg[j] \in DOMAIN features

\* C15 gradualRollout(order) stops at the first feature whose enable fails:
\* every feature before it ends enabled, the failing feature ends disabled,
\* and every feature after it has its self-test not run and its flag
\* unchanged.
C15_RolloutStopsAtFirstFailure ==
    \A i \in 1..4 :
        RolloutStoppedAt(i) =>
            LET order == lastOp.arg IN
            /\ \A j \in 1..(i - 1) : features[order[j]]
            /\ ~features[order[i]]
            /\ \A j \in (i + 1)..Len(order) :
                  /\ order[j] \notin lastOp.res.tested
                  /\ features[order[j]] = lastOp.res.before[order[j]]

\* C17 After emergencyDisableAll() every non-protected feature is disabled
\* and the flag of the protected feature is what it was before the call.
C17_EmergencyKeepsProtectedFlag ==
    lastOp.op = "emergency" =>
        /\ \A f \in DOMAIN features \ {ProtectedFeature} : ~features[f]
        /\ features[ProtectedFeature] = lastOp.res.before[ProtectedFeature]

\* emergency_disable_all ran with a non-protected feature enabled and the
\* protected feature enabled.
C17_Witness ==
    /\ lastOp.op = "emergency"
    /\ lastOp.res.before[ProtectedFeature]
    /\ \E f \in DOMAIN features \ {ProtectedFeature} : lastOp.res.before[f]

\* (a) there are ten decision samples and the mean of the ten most recent
\* exceeds the critical time.
SlowRecentDecisions ==
    /\ Len(decision_times) >= RecentSamples
    /\ sum(last_n(decision_times, RecentSamples))
           > decision_time_critical * RecentSamples

\* (b) more than five fallback events are less than a minute old.
FrequentRecentFallbacks ==
    Cardinality(recent_fallbacks(fallback_events, now)) > FrequentFallbacks

\* C16 shouldDisableFeatures() returns true exactly when (a) the mean of the
\* 10 most recent decision samples exceeds 500 ms or (b) more than 5 fallback
\* events occurred within the last 60 seconds; (b) alone suffices, whatever
\* the number of decision samples.
C16_DisableOnSlowOrFrequentFallbacks ==
    lastOp.op = "should_disable" =>
        (lastOp.ok <=> (SlowRecentDecisions \/ FrequentRecentFallbacks))

\* A step of backup_to_json, told by the call it records.
ExportStep ==
    /\ lastOp'.op = "export"
    /\ Export([lat |-> lastOp'.lat, exc |-> lastOp'.exc])

\* C18 export() called while availability is false returns false, creates no
\* backup file and makes no call to the remote store; export() returns true
\* only if availability was true at the call.
C18_ExportOnlyWhileAvailable ==
    [][ExportStep =>
          /\ lastOp'.ok => redis_available
          /\ ~redis_available =>
                /\ ~lastOp'.ok
                /\ [lat |-> lastOp'.lat, exc |-> lastOp'.exc] = NoOutcome
                /\ backup_file' = backup_file
                /\ backup_dir' = backup_dir
                /\ UNCHANGED storeVars]_vars

\* backup_to_json was called in FALLBACK with the store enabled, and failed.
C18_Witness ==
    /\ lastOp.op = "export"
    /\ enable_redis
    /\ ~lastOp.was_available
    /\ ~lastOp.ok

\* C19 import(path) returns the number of Records whose put succeeded, and
\* returns 0 without raising when the file at path is missing.
C19_ImportReturnsCount ==
    lastOp.op = "import" =>
        /\ bool_as_int(lastOp.res.returned) = lastOp.res.restored_count
        /\ lastOp.arg = "missing" => bool_as_int(lastOp.res.returned) = 0

\* The calls on the controller, and those on the adapter and the backup
\* manager that reach the store through _redis_operation_with_fallback.
ControllerOps == {"trip", "recover"}
WrappedStoreOps == {"get", "put", "import"}

\* The three fields after _trigger_fallback ran once.
TrippedOnce ==
    /\ ~redis_available'
    /\ fallback_count' = fallback_count + 1
    /\ last_fallback_time' = now

\* C20 (as stated) availability, fallbackCount and lastFallbackTime are
\* changed only by the controller's operations trip and attemptRecovery; every
\* adapter, backup, monitor and gate operation leaves all three unchanged.
C20_OnlyControllerChangesCache ==
    [][cacheVars' # cacheVars => lastOp'.op \in ControllerOps]_vars

\* C20 (amended) the three fields change only in a trip or an
\* attemptRecovery of the controller, or in a get, put or import made while
\* available whose remote call failed or was late, which trips once; export,
\* autoBackup, cleanup, the monitor and the gate leave them unchanged.
C20_CacheChangesOnlyByTripOrRecovery ==
    [][cacheVars' # cacheVars =>
          \/ lastOp'.op \in ControllerOps
          \/ /\ lastOp'.op \in WrappedStoreOps
             /\ redis_available
             /\ ~InTime([lat |-> lastOp'.lat, exc |-> lastOp'.exc])
             /\ TrippedOnce]_vars

\* An import made while available met a failing write and tripped, after
\* the gate and the monitor were used.
C20_Witness ==
    /\ lastOp.op = "import"
    /\ lastOp.was_available
    /\ ~redis_available
    /\ features["REDIS"]
    /\ fallback_events # <<>>

\* A buffer holds the most recent min(n, max_samples) of the n samples of
\* history, in arrival order.
HoldsMostRecent(buffer, history) ==
    /\ Len(buffer) <= max_samples
    /\ Len(buffer) = Min(Len(history), max_samples)
    /\ \A i \in 1..Len(buffer) :
          buffer[i] = history[Len(history) - Len(buffer) + i]

\* C21 After any sequence of track calls, the buffer of each operation class
\* holds at most capacity samples, and they are exactly the most recent
\* min(n, capacity) samples tracked for that class, in arrival order.
C21_BuffersHoldMostRecent ==
    /\ HoldsMostRecent(decision_times, tracked.decision)
    /\ HoldsMostRecent(redis_operation_times, tracked.redis)

\* Both buffers have evicted samples.
C21_Witness ==
    /\ max_samples = 2
    /\ Len(tracked.decision) = 4 /\ tracked.decision[1] # tracked.decision[3]
    /\ Len(tracked.redis) = 3

\* The mean and the maximum of the decision buffer, which is not empty.
IsMeanOf(avg, q) == avg.num * Len(q) = sum(q) * avg.den
IsMaximumOf(x, q) ==
    /\ \E i \in DOMAIN q : q[i] = x
    /\ \A i \in DOMAIN q : q[i] <= x

\* C27 (as stated) After every track of a decision sample avg is the mean and
\* max the maximum of the samples held in the decision buffer, and
\* total_decisions is the number of track calls made.
C27_MetricsAfterTrack ==
    lastOp.op = "track" =>
        /\ IsMeanOf(metrics.avg_decision_time, decision_times)
        /\ IsMaximumOf(metrics.max_decision_time, decision_times)
        /\ metrics.total_decisions = Len(tracked.decision)

\* C27 (amended) After every track of a decision sample avg is the mean and
\* max the maximum of the samples held in the decision buffer, and
\* total_decisions is the number of track calls made since construction or
\* the last reset.
C27_MetricsAfterTrackSinceReset ==
    lastOp.op = "track" =>
        /\ IsMeanOf(metrics.avg_decision_time, decision_times)
        /\ IsMaximumOf(metrics.max_decision_time, decision_times)
        /\ metrics.total_decisions = tracked.since_reset

\* A decision was tracked after a reset, into a buffer that has evicted the
\* largest sample.
C27_Witness ==
    /\ lastOp.op = "track"
    /\ max_samples = 2
    /\ tracked.since_reset = 3
    /\ Len(tracked.decision) = 4
    /\ metrics.max_decision_time = 100
    /\ \E i \in 2..4 : tracked.decision[i] = 600

\* The last call was trip(reason, d).
TripCall(reason, d) ==
    lastOp.op = "trip" /\ lastOp.arg = reason /\ lastOp.lat = d

\* C22 A trip(reason, d) call qualifies exactly when the reason's threshold
\* is 0, or d exceeds the reason's nonzero threshold, or d exceeds the generic
\* 50 ms floor; reason timeout with d over 50 ms and up to 100 ms trips, and a
\* call with an unknown or absent reason trips exactly when d exceeds 50 ms.
C22_TripQualifies ==
    \A reason \in ErrorTypes, d \in Durations :
        TripCall(reason, d) =>
            /\ lastOp.ok <=>
                  \/ reason \in {"connection_lost", "memory_full", "corruption"}
                  \/ reason = "timeout" /\ d > 100
                  \/ reason = "high_latency" /\ d > 50
                  \/ d > 50
            /\ (reason = "timeout" /\ d > 50 /\ d <= 100) => lastOp.ok
            /\ reason \in {"unknown", "none"} => (lastOp.ok <=> d > 50)

\* trip("timeout", 51): under the threshold of timeout, over the floor.
C22_Witness ==
    /\ TripCall("timeout", 51)
    /\ lastOp.was_available
    /\ lastOp.ok
    /\ ~redis_available

\* The outcome of the remote call the next call record holds.
NextOutcome == [lat |-> lastOp'.lat, exc |-> lastOp'.exc]

\* A get or a put made while available whose remote call raised or took
\* longer than MAX_REDIS_LATENCY_MS.
FailedWrappedCall ==
    /\ lastOp'.op \in {"get", "put"}
    /\ redis_available
    /\ lastOp'.was_available
    /\ NextOutcome.exc \/ NextOutcome.lat > MAX_REDIS_LATENCY_MS

\* C23 Every StoreAdapter call made while AVAILABLE that raises or takes
\* longer than maxLatencyMs returns an empty outcome to its caller without
\* raising, and results in a trip: availability becomes false and
\* fallbackCount rises by 1.
C23_FailedCallReturnsEmptyAndTrips ==
    [][FailedWrappedCall =>
          /\ \A n \in Names :
                redis_operation_with_fallback(NextOutcome, redis_hash[n]) = None
          /\ lastOp'.op = "get" =>
                lastOp'.res = JsonGet(json_cards, lastOp'.arg)
          /\ ~redis_available'
          /\ fallback_count' = fallback_count + 1]_vars

\* A get of a card the store holds took too long, without raising: the
\* caller got the snapshot's record and the system tripped.
C23_Witness ==
    /\ lastOp.op = "get"
    /\ lastOp.was_available
    /\ ~lastOp.exc /\ lastOp.lat > MAX_REDIS_LATENCY_MS
    /\ redis_hash[lastOp.arg] # EmptyMap
    /\ ~redis_available
    /\ fallback_count = 1

\* The last call was auto_backup, it called backup_to_json and that failed.
FailedAutoBackup(call) == call.attempted /\ ~call.exported

\* C24 autoBackup rewrites the marker only when the export it triggered
\* succeeded: when the interval has elapsed but the export fails (or the
\* store is in FALLBACK) the marker is unchanged, autoBackup returns false,
\* and the next autoBackup call attempts the export again.
C24_MarkerOnlyAfterExport ==
    [][/\ backup_marker' # backup_marker =>
             /\ lastOp'.op = "auto_backup"
             /\ lastOp'.res.call.exported
             /\ backup_marker' = lastOp'.res.call.t
       /\ (lastOp'.op = "auto_backup" /\ FailedAutoBackup(lastOp'.res.call)) =>
             /\ backup_marker' = backup_marker
             /\ ~lastOp'.ok /\ ~lastOp'.res.call.returned
       /\ (/\ lastOp'.op = "auto_backup"
           /\ lastOp'.res.previous # <<>>
           /\ FailedAutoBackup(lastOp'.res.previous[1])
           /\ lastOp'.res.previous[1].interval = lastOp'.res.call.interval) =>
             lastOp'.res.call.attempted]_vars

\* An auto_backup whose export failed on an available store, with a marker
\* already written, was followed by one that exported.
C24_Witness ==
    /\ lastOp.op = "auto_backup"
    /\ lastOp.res.previous # <<>>
    /\ FailedAutoBackup(lastOp.res.previous[1])
    /\ lastOp.res.previous[1].available
    /\ lastOp.res.previous[1].t > 1
    /\ lastOp.res.call.exported
    /\ backup_marker = now

\* Caller c takes the step that tests the time, having read a marker by
\* which the backup is due, with the store available and answering.
DueByMarkerRead(c) ==
    /\ callers[c].pc = "read"
    /\ lastOp'.op = "auto_export" /\ lastOp'.arg = c
    /\ callers'[c].pc # "read"
    /\ backup_is_due(callers[c].last_backup_time, now, callers[c].interval)
    /\ redis_available
    /\ ~lastOp'.exc

\* C25 With two concurrent callers of autoBackup on one backup directory and
\* no lock, a caller exports by the marker it read, whatever the other
\* caller has written since: so there is an interleaving of the marker read
\* and the marker write in which both export within the same interval.
C25_CallerExportsByMarkerRead ==
    [][\A c \in Callers :
          DueByMarkerRead(c) =>
              /\ callers'[c].pc = "exported"
              /\ callers'[c].exported_at = now
              /\ now \in backup_dir']_vars

\* Both callers exported, a second apart with an interval of two, the second
\* after the first had written the marker.
C25_Witness ==
    /\ callers[1].interval = 2 /\ callers[2].interval = 2
    /\ callers[1].exported_at = 1
    /\ callers[2].exported_at = 2
    /\ callers[2].last_backup_time = NoMarker
    /\ callers[2].pc = "exported"
    /\ backup_marker = 1
    /\ backup_dir = {1, 2}


\* C26 A put (store_card) attempted while in FALLBACK is dropped: it reports
\* failure and leaves both the remote store's contents and the in-memory
\* snapshot unchanged.
C26_PutInFallbackIsDropped ==
    [][(/\ lastOp' # lastOp
        /\ lastOp'.op = "put" /\ ~lastOp'.was_available
        /\ ~redis_available) =>
          /\ ~lastOp'.ok
          /\ lastOp'.lat = NoOutcome.lat
          /\ UNCHANGED <<redis_hash, redis_zset, json_cards>>
          /\ UNCHANGED cacheVars]_vars

\* A put of Archers was refused in FALLBACK: the store still holds Knight
\* alone, and the snapshot is the one loaded at construction.
C26_Witness ==
    /\ lastOp.op = "put" /\ lastOp.arg = "Archers"
    /\ ~lastOp.was_available
    /\ ~lastOp.ok
    /\ redis_hash["Knight"] # EmptyMap
    /\ redis_hash["Archers"] = EmptyMap
    /\ json_cards = SnapshotObject


\* The order of side effects the specification gives for a qualifying trip.
ClaimedOrder == <<"snapshot", "availability", "count", "time">>

\* C28 A qualifying trip performs its side effects in this order: the
\* snapshot is ensured loaded first, then availability is set to false, then
\* fallbackCount is incremented, then lastFallbackTime is set; so no
\* intermediate state of a trip has availability false while the snapshot is
\* not loaded.
C28_SnapshotEnsuredBeforeUnavailable ==
    executing # NotExecuting =>
        /\ \A i \in 1..Len(executing.done) : executing.done[i] = ClaimedOrder[i]
        /\ ~redis_available =>
               \/ json_cards # EmptyMap
               \/ load_json_fallback(cards_file) = EmptyMap


\* C29 The initial state is AVAILABLE exactly when the startup connect
\* succeeded (store enabled, handshake did not raise and took at most
\* maxLatencyMs); in every other case the initial state is FALLBACK with the
\* snapshot already loaded.
C29_InitialAvailability ==
    lastOp.op = "init" =>
        /\ redis_available <=>
              /\ enable_redis
              /\ ~lastOp.exc
              /\ lastOp.lat <= MAX_REDIS_LATENCY_MS
        /\ ~redis_available =>
              /\ json_cards = load_json_fallback(cards_file)
              /\ cards_file = "object" => json_cards = SnapshotObject

\* Constructed with the store enabled and a handshake that returned, but one
\* millisecond over the budget: FALLBACK, with the cards of cards.json loaded.
C29_Witness ==
    /\ lastOp.op = "init"
    /\ enable_redis
    /\ ~lastOp.exc /\ lastOp.lat = MAX_REDIS_LATENCY_MS + 1
    /\ ~redis_available
    /\ json_cards = SnapshotObject


\* C30 During cleanup(keepCount), a failure to delete one file does not stop
\* the pass: every other backup file beyond the keepCount most recent is
\* still deleted, and cleanup does not raise.
C30_CleanupGoesOnAfterFailure ==
    (lastOp.op = "cleanup" /\ lastOp.res.failed # {}) =>
        /\ \A f \in lastOp.res.before \ MostRecent(lastOp.res.before, lastOp.arg) :
              f \notin lastOp.res.failed => f \notin backup_dir
        /\ lastOp.res.failed \subseteq backup_dir
        /\ lastOp.ok

\* cleanup_old_backups(0) over two files: removing the newer one, which the
\* loop takes first, failed, and the older one was removed all the same.
C30_Witness ==
    /\ lastOp.op = "cleanup" /\ lastOp.arg = 0
    /\ lastOp.res.before = {1, 2}
    /\ lastOp.res.failed = {2}
    /\ backup_dir = {2}


\* C31 A backup file preserves the explicit score of every (peer, score) pair
\* in each relation list, so export() followed by import() restores each
\* relation's score to the value it had at export time: after an export, an
\* emptying of the store and a complete import, every peer of every sorted
\* set has the score it had at the export.
C31_RoundTripKeepsScores ==
    rt_phase = "restored" =>
        \A n \in Names, k \in Kinds :
            \A p \in DOMAIN exported_from.zset[<<n, k>>] :
                /\ p \in DOMAIN redis_zset[<<n, k>>]
                /\ redis_zset[<<n, k>>][p] = exported_from.zset[<<n, k>>][p]


\* C32 The protected feature PERFORMANCE_MONITORING is enabled in every
\* reachable state of the feature gate, directly after construction from any
\* flags file and after any sequence of enable, disable, emergency disable
\* and gradual rollout calls.
C32_ProtectedAlwaysEnabled ==
    /\ ProtectedFeature \in DOMAIN features
    /\ features[ProtectedFeature]


\* C33 In every reachable state last_fallback_time is unset (0) exactly when
\* fallback_count is 0: no operation raises fallback_count without also
\* setting last_fallback_time.
C33_TimeUnsetIffNoFallback ==
    (last_fallback_time = 0) <=> (fallback_count = 0)


\* C34 put (store_card) returns success only if every one of its remote
\* writes, the hash and each sorted-set entry, was applied without a trip;
\* if any of them raises or takes longer than MAX_REDIS_LATENCY_MS, put
\* reports failure.
C34_PutSucceedsOnlyIfAllWritesDid ==
    lastOp.op = "put" =>
        /\ lastOp.ok =>
              /\ lastOp.was_available
              /\ ~lastOp.exc
              /\ ~(lastOp.lat > MAX_REDIS_LATENCY_MS)
        /\ (/\ lastOp.was_available
            /\ lastOp.exc \/ lastOp.lat > MAX_REDIS_LATENCY_MS) => ~lastOp.ok


\* C35 While redis_available is false, no get or put contacts the remote
\* store: get is answered from the snapshot alone and put returns at once,
\* the store and the cache fields staying as they are, until an
\* attempt_recovery succeeds, the one call that makes redis_available true.
C35_NoRemoteContactInFallback ==
    [][/\ (/\ lastOp' # lastOp
           /\ lastOp'.op \in {"get", "put"}
           /\ ~redis_available) =>
              /\ ~lastOp'.was_available
              /\ lastOp'.lat = NoOutcome.lat /\ ~lastOp'.exc
              /\ UNCHANGED <<storeVars, cacheVars, json_cards>>
              /\ lastOp'.op = "get" =>
                    lastOp'.res = JsonGet(json_cards, lastOp'.arg)
              /\ lastOp'.op = "put" => ~lastOp'.ok
       /\ (~redis_available /\ redis_available') =>
              lastOp'.op = "recover" /\ lastOp'.ok]_vars

\* A healthy store holds Knight as text; in FALLBACK a get of Knight is
\* answered with the snapshot's record, numbers and lists included.
C35_Witness ==
    /\ lastOp.op = "get" /\ lastOp.arg = "Knight"
    /\ ~lastOp.was_available
    /\ lastOp.lat = NoOutcome.lat
    /\ ~redis_available
    /\ store_mode = "healthy"
    /\ redis_hash["Knight"] # EmptyMap
    /\ lastOp.res = KnightCard
    /\ lastOp.res.props # redis_hash["Knight"]


\* C36 as claimed: export() never changes redis_available, fallback_count or
\* last_fallback_time: a remote-store error or slow call during export makes
\* export return false but does not trip the system.
C36_FailedExportReturnsFalseNoTrip ==
    [][ExportStep =>
          /\ UNCHANGED cacheVars
          /\ (/\ redis_available
              /\ lastOp'.exc \/ lastOp'.lat > MAX_REDIS_LATENCY_MS) =>
                 ~lastOp'.ok]_vars

\* C36 as amended: export() never changes redis_available, fallback_count or
\* last_fallback_time. A remote-store error during export makes it return
\* false; a slow call goes unnoticed, and the export returns true.
C36_ExportNeverTrips ==
    [][ExportStep =>
          /\ UNCHANGED cacheVars
          /\ (redis_available /\ lastOp'.exc) => ~lastOp'.ok
          /\ (redis_available /\ ~lastOp'.exc) =>
                 /\ lastOp'.ok
                 /\ backup_file' =
                        File(backup_data(Store(redis_hash, redis_zset)))]_vars

\* An export on an available store that had never tripped met a raising
\* store: it returned False and the store is still taken to be available.
C36_Witness ==
    /\ lastOp.op = "export"
    /\ lastOp.was_available
    /\ lastOp.exc
    /\ ~lastOp.ok
    /\ redis_available
    /\ fallback_count = 0 /\ last_fallback_time = 0
    /\ redis_hash["Knight"] # EmptyMap


\* C37 When redis_available holds and the remote store answers a get in time
\* but holds no data for the key, get returns the snapshot's record for that
\* key, or an empty record if the snapshot has none, and redis_available and
\* fallback_count are unchanged.
C37_EmptyAnswerServedBySnapshot ==
    [][(/\ lastOp' # lastOp
        /\ lastOp'.op = "get"
        /\ redis_available
        /\ InTime(NextOutcome)
        /\ redis_hash[lastOp'.arg] = EmptyMap) =>
           /\ lastOp'.res =
                 IF lastOp'.arg \in DOMAIN json_cards
                 THEN json_cards[lastOp'.arg] ELSE EmptyRecord
           /\ UNCHANGED <<redis_available, fallback_count>>]_vars

\* The store is available, answers in time and holds no Knight: the get
\* returned the Knight of the snapshot, and nothing tripped.
C37_Witness ==
    /\ lastOp.op = "get" /\ lastOp.arg = "Knight"
    /\ lastOp.was_available
    /\ ~lastOp.exc /\ lastOp.lat = MAX_REDIS_LATENCY_MS
    /\ redis_hash["Knight"] = EmptyMap
    /\ lastOp.res = KnightCard
    /\ redis_available
    /\ fallback_count = 0

====
